---- MODULE Spec2Model ----
(***************************************************************************)
(* Text normalisation for speech synthesis: src/num/number.py (the         *)
(* verbalizer and its tag content converters) and                          *)
(* src/num/process_tagged_string.py (the auto-tagger).                     *)
(*                                                                         *)
(* A Python str is a sequence of characters; a character is a TLA+ string. *)
(* ASCII characters are themselves.  The module is pure ASCII, so every    *)
(* CJK character is written by its pinyin name:                            *)
(*   ling yi er san si wu liu qi ba jiu   U+96F6 U+4E00 U+4E8C U+4E09      *)
(*                                        U+56DB U+4E94 U+516D U+4E03      *)
(*                                        U+516B U+4E5D  (digits 0..9)     *)
(*   yao U+5E7A (telephone 1)   dian U+70B9   shi U+5341   bai U+767E      *)
(*   wan U+4E07   fu U+8D1F   nian U+5E74   yue U+6708   ri U+65E5         *)
(*   fen U+5206   ren min bi U+4EBA U+6C11 U+5E01   mei U+7F8E             *)
(*   yuan U+5143   jin U+91D1   du U+5EA6   wa U+74E6                      *)
(*   colon U+FF1A (fullwidth colon, a plain non-digit character)           *)
(* and two digits outside ASCII, by which str.isdigit, int and the regex   *)
(* class \d differ:                                                        *)
(*   sup2 U+00B2 SUPERSCRIPT TWO: isdigit() is True, not matched by \d,    *)
(*        int() raises ValueError                                          *)
(*   ar5  U+0665 ARABIC-INDIC DIGIT FIVE: isdigit() is True, matched by    *)
(*        \d, int() gives 5, not a key of DIGIT_MAP                        *)
(***************************************************************************)
EXTENDS Integers, Sequences, FiniteSets, TLC

VARIABLES input, calls, prev, output, raised

vars == <<input, calls, prev, output, raised>>

(***************************************************************************)
(* Python built-ins used by the code.                                      *)
(***************************************************************************)
AsciiDigits == <<"0", "1", "2", "3", "4", "5", "6", "7", "8", "9">>

AsciiDigitSet == {AsciiDigits[i] : i \in 1..10}

\* str.isdigit() of one character
IsDigitChar(c) == c \in AsciiDigitSet \cup {"sup2", "ar5"}

\* the regex class \d (Unicode category Nd)
IsReDigit(c) == c \in AsciiDigitSet \cup {"ar5"}

\* the regex class \s
IsReSpace(c) == c \in {" ", "\n", "\t"}

\* str.isdigit(): non-empty and every character a digit
isdigit(s) == Len(s) > 0 /\ \A i \in 1..Len(s) : IsDigitChar(s[i])

\* the value of one decimal digit character
DigitVal(c) == IF c = "ar5" THEN 5 ELSE CHOOSE d \in 0..9 : AsciiDigits[d + 1] = c

\* int(s) succeeds on a string that passed isdigit() iff every character is decimal
IntOk(s) == \A i \in 1..Len(s) : IsReDigit(s[i])

RECURSIVE int(_)
int(s) == IF Len(s) = 0 THEN 0
          ELSE 10 * int(SubSeq(s, 1, Len(s) - 1)) + DigitVal(s[Len(s)])

\* str(n) for n >= 0
RECURSIVE str(_)
str(n) == IF n < 10 THEN <<AsciiDigits[n + 1]>>
          ELSE str(n \div 10) \o <<AsciiDigits[(n % 10) + 1]>>

\* s.startswith(p), and p found in s at index i (1-based)
At(s, i, p) == i + Len(p) - 1 <= Len(s) /\ SubSeq(s, i, i + Len(p) - 1) = p

startswith(s, p) == At(s, 1, p)

endswith(s, p) == Len(p) <= Len(s) /\ SubSeq(s, Len(s) - Len(p) + 1, Len(s)) = p

\* c in s
Contains(s, c) == \E i \in 1..Len(s) : s[i] = c

\* s.split(sep) for a one-character separator: the list of parts
RECURSIVE split(_, _)
split(s, sep) ==
    IF ~Contains(s, sep) THEN <<s>>
    ELSE LET i == CHOOSE k \in 1..Len(s) :
                      s[k] = sep /\ \A j \in 1..(k - 1) : s[j] # sep
         IN <<SubSeq(s, 1, i - 1)>> \o split(SubSeq(s, i + 1, Len(s)), sep)

\* the result of a call: a returned string, or a raised exception
Ok(v) == [exc |-> "none", val |-> v]

Raise(e) == [exc |-> e, val |-> <<>>]

(***************************************************************************)
(* number.py: constants                                                    *)
(***************************************************************************)
DIGIT_MAP ==
    [c \in AsciiDigitSet |->
        <<"ling", "yi", "er", "san", "si", "wu", "liu", "qi", "ba", "jiu">>[DigitVal(c) + 1]]

TEL_DIGIT_MAP == [DIGIT_MAP EXCEPT !["1"] = "yao"]

KNOWN_MONETARY_UNITS == <<<<"ren", "min", "bi">>, <<"mei", "yuan">>, <<"yuan">>>>

InList(x, list) == \E i \in 1..Len(list) : list[i] = x

(***************************************************************************)
(* number.py: helper conversions                                           *)
(***************************************************************************)
RECURSIVE CharByCharLoop(_, _, _)
CharByCharLoop(s, current_map, handle_dot_for_number) ==
    IF Len(s) = 0 THEN <<>>
    ELSE LET c == s[1]
             o == IF c = "." /\ handle_dot_for_number THEN "dian"
                  ELSE IF c \in DOMAIN current_map THEN current_map[c]
                  ELSE c
         IN <<o>> \o CharByCharLoop(Tail(s), current_map, handle_dot_for_number)

convert_char_by_char_to_chinese(s, is_telephone, is_year, handle_dot_for_number) ==
    LET current_map == IF is_telephone THEN TEL_DIGIT_MAP ELSE DIGIT_MAP
        processed_content == IF is_telephone /\ startswith(s, <<"+">>) THEN Tail(s) ELSE s
    IN CharByCharLoop(processed_content, current_map, handle_dot_for_number)

Digit(n) == DIGIT_MAP[AsciiDigits[n + 1]]

\* the branches for every component type (number.py lines 46-54)
generic_reading(num_str, val) ==
    IF val = 0 THEN Ok(<<DIGIT_MAP["0"]>>)
    ELSE IF 1 <= val /\ val <= 9 THEN Ok(<<Digit(val)>>)
    ELSE IF val = 10 THEN Ok(<<"shi">>)
    ELSE IF 11 <= val /\ val <= 19 THEN Ok(<<"shi", Digit(val % 10)>>)
    ELSE IF 20 <= val /\ val <= 99 /\ val % 10 = 0 THEN Ok(<<Digit(val \div 10), "shi">>)
    ELSE IF 20 <= val /\ val <= 99 THEN Ok(<<Digit(val \div 10), "shi", Digit(val % 10)>>)
    ELSE Ok(num_str)

\* faulty variant: the minute branch left out
normalize_without_minute_branch(num_str, component_type) ==
    IF ~isdigit(num_str) THEN Ok(num_str)
    ELSE IF ~IntOk(num_str) THEN Raise("ValueError")
    ELSE generic_reading(num_str, int(num_str))

normalize_number_for_date_time_parts(num_str, component_type) ==
    IF ~isdigit(num_str) THEN Ok(num_str)
    ELSE IF ~IntOk(num_str) THEN Raise("ValueError")
    ELSE LET val == int(num_str) IN
         IF component_type = "minute" /\ num_str = <<"0", "0">> THEN Ok(<<"ling">>)
         ELSE IF component_type = "minute" /\ Len(num_str) = 2
                 /\ startswith(num_str, <<"0">>) /\ val # 0
              THEN IF num_str[2] \in DOMAIN DIGIT_MAP
                   THEN Ok(<<"ling", DIGIT_MAP[num_str[2]]>>)
                   ELSE Raise("KeyError")
         ELSE generic_reading(num_str, val)

\* the character classes of the regexes: \d, . (no re.DOTALL) and [^\d\s]
InClass(c, class) ==
    CASE class = "\\d" -> IsReDigit(c)
      [] class = "." -> c # "\n"
      [] class = "[^\\d\\s]" -> ~IsReDigit(c) /\ ~IsReSpace(c)

\* what a greedy class* takes at the start of s: the length of the longest prefix
\* whose characters are all of the class
RunLen(s, class) ==
    CHOOSE n \in 0..Len(s) :
        /\ \A i \in 1..n : InClass(s[i], class)
        /\ n = Len(s) \/ ~InClass(s[n + 1], class)

\* r.val followed by suffix, an exception passing through
Then(r, suffix) == IF r.exc # "none" THEN r ELSE Ok(r.val \o suffix)

Abs(n) == IF n < 0 THEN -n ELSE n

RECURSIVE number_to_chinese_natural_reading(_)
number_to_chinese_natural_reading(num_str) ==
    IF ~isdigit(num_str)
    THEN \* re.match(r"(\d+)(.*)", num_str)
         LET n == RunLen(num_str, "\\d") IN
         IF n > 0
         THEN LET num_part == SubSeq(num_str, 1, n)
                  rest == SubSeq(num_str, n + 1, Len(num_str))
                  suffix_part == SubSeq(rest, 1, RunLen(rest, "."))
              IN Then(number_to_chinese_natural_reading(num_part), suffix_part)
         ELSE Ok(convert_char_by_char_to_chinese(num_str, FALSE, FALSE, FALSE))
    ELSE IF ~IntOk(num_str) THEN Raise("ValueError")
    ELSE LET val == int(num_str) IN
         IF val < 0
         THEN LET r == number_to_chinese_natural_reading(str(Abs(val)))
              IN IF r.exc # "none" THEN r ELSE Ok(<<"fu">> \o r.val)
         ELSE IF 0 <= val /\ val <= 99
         THEN normalize_number_for_date_time_parts(str(val), "generic")
         ELSE IF 100 <= val /\ val <= 999
         THEN LET h_digit_str == str(val \div 100)
                  remainder == val % 100
                  res == normalize_number_for_date_time_parts(h_digit_str, "generic").val
                             \o <<"bai">>
              IN IF remainder = 0 THEN Ok(res)
                 ELSE LET res1 == IF remainder < 10 THEN res \o <<DIGIT_MAP["0"]>> ELSE res
                      IN IF remainder = 10 THEN Ok(res1 \o <<DIGIT_MAP["1"], "shi">>)
                         ELSE Ok(res1 \o normalize_number_for_date_time_parts(
                                             str(remainder), "generic").val)
         ELSE Ok(convert_char_by_char_to_chinese(num_str, FALSE, FALSE, FALSE))

(***************************************************************************)
(* number.py: one converter per tag                                        *)
(***************************************************************************)
\* faulty variant: the number tag read by place value
convert_number_tag_content_natural(content) ==
    number_to_chinese_natural_reading(content)

convert_number_tag_content(content) ==
    Ok(convert_char_by_char_to_chinese(content, FALSE, FALSE, TRUE))

convert_telephone_tag_content(content) ==
    Ok(convert_char_by_char_to_chinese(content, TRUE, FALSE, FALSE))

convert_date_tag_content(content) ==
    LET dparts == split(content, "/")
        tparts == split(content, ":")
    IN IF Contains(content, "/") /\ Len(dparts) = 3
       THEN LET year_str == convert_char_by_char_to_chinese(dparts[1], FALSE, TRUE, FALSE)
                month_str == normalize_number_for_date_time_parts(dparts[2], "month")
                day_str == normalize_number_for_date_time_parts(dparts[3], "day")
            IN IF month_str.exc # "none" THEN month_str
               ELSE IF day_str.exc # "none" THEN day_str
               ELSE Ok(year_str \o <<"nian">> \o month_str.val \o <<"yue">>
                           \o day_str.val \o <<"ri">>)
       ELSE IF ~Contains(content, "/") /\ Contains(content, ":") /\ Len(tparts) = 2
       THEN LET hour_str == normalize_number_for_date_time_parts(tparts[1], "hour")
                minute_str == normalize_number_for_date_time_parts(tparts[2], "minute")
            IN IF hour_str.exc # "none" THEN hour_str
               ELSE IF minute_str.exc # "none" THEN minute_str
               ELSE Ok(hour_str.val \o <<"dian">> \o minute_str.val \o <<"fen">>)
       ELSE Ok(content)

\* faulty variant: any suffix taken for a monetary unit
monetary_unit_unchecked(raw_suffix) == raw_suffix

\* the monetary unit recognised in the suffix, empty when there is none
monetary_unit(raw_suffix) ==
    IF InList(raw_suffix, KNOWN_MONETARY_UNITS) THEN raw_suffix ELSE <<>>

convert_currency_tag_content(content) ==
    LET \* re.match(r"(\d+)([^\d\s]*)", content)
        n == RunLen(content, "\\d")
        matched == n > 0
        rest == SubSeq(content, n + 1, Len(content))
        num_part_str == IF matched THEN SubSeq(content, 1, n) ELSE content
        raw_suffix == IF matched THEN SubSeq(rest, 1, RunLen(rest, "[^\\d\\s]")) ELSE <<>>
        monetary_unit_suffix == IF matched THEN monetary_unit(raw_suffix) ELSE <<>>
    IN IF isdigit(num_part_str)
       THEN IF ~IntOk(num_part_str) THEN Raise("ValueError")
            ELSE LET val == int(num_part_str)
                     prefix_val_str == SubSeq(num_part_str, 1, Len(num_part_str) - 4)
                 IN IF endswith(num_part_str, <<"0", "0", "0", "0">>) /\ val > 0
                       /\ monetary_unit_suffix # <<>> /\ prefix_val_str # <<>>
                    THEN Then(number_to_chinese_natural_reading(prefix_val_str),
                              <<"wan">> \o monetary_unit_suffix)
                    ELSE IF monetary_unit_suffix = <<"yuan">>
                            /\ num_part_str = <<"5", "4", "3", "2">>
                    THEN Ok(convert_char_by_char_to_chinese(num_part_str, FALSE, FALSE, FALSE)
                                \o monetary_unit_suffix)
                    ELSE LET chinese_num == number_to_chinese_natural_reading(num_part_str)
                         IN IF monetary_unit_suffix # <<>>
                            THEN Then(chinese_num, monetary_unit_suffix)
                            ELSE Then(chinese_num, raw_suffix)
       ELSE Ok(convert_char_by_char_to_chinese(content, FALSE, FALSE, FALSE))

(***************************************************************************)
(* number.py: convert_tagged_string_to_spoken_chinese                      *)
(***************************************************************************)
\* the alternation (?P<tag>number|currency|telephone|date), in its order
TAGS == <<"number", "currency", "telephone", "date">>

TagChars(t) ==
    CASE t = "number" -> <<"n", "u", "m", "b", "e", "r">>
      [] t = "currency" -> <<"c", "u", "r", "r", "e", "n", "c", "y">>
      [] t = "telephone" -> <<"t", "e", "l", "e", "p", "h", "o", "n", "e">>
      [] t = "date" -> <<"d", "a", "t", "e">>

OpenTag(t) == <<"<">> \o TagChars(t) \o <<">">>

CloseTag(t) == <<"<", "/">> \o TagChars(t) \o <<">">>

\* The positions where </t> may end a match whose content starts at c: the lazy
\* .*? takes no line break (the pattern is compiled without re.DOTALL).
CloseCandidates(s, c, t) ==
    {j \in c..Len(s) : At(s, j, CloseTag(t)) /\ \A k \in c..(j - 1) : s[k] # "\n"}

Min(S) == CHOOSE x \in S : \A y \in S : x <= y

Max(S) == CHOOSE x \in S : \A y \in S : x >= y

NoMatch == [found |-> FALSE]

\* faulty variant: the content greedy, .* for .*?
TagMatchAtGreedy(s, i) ==
    IF \E k \in 1..Len(TAGS) : At(s, i, OpenTag(TAGS[k]))
    THEN LET t == TAGS[CHOOSE k \in 1..Len(TAGS) : At(s, i, OpenTag(TAGS[k]))]
             c == i + Len(OpenTag(t))
             J == CloseCandidates(s, c, t)
         IN IF J = {} THEN NoMatch
            ELSE [found |-> TRUE, start |-> i, tag |-> t,
                  content |-> SubSeq(s, c, Max(J) - 1),
                  end |-> Max(J) + Len(CloseTag(t)) - 1,
                  group0 |-> SubSeq(s, i, Max(J) + Len(CloseTag(t)) - 1)]
    ELSE NoMatch

\* the pattern tried at index i: <tag> content </tag>, the content lazy
TagMatchAt(s, i) ==
    IF \E k \in 1..Len(TAGS) : At(s, i, OpenTag(TAGS[k]))
    THEN LET t == TAGS[CHOOSE k \in 1..Len(TAGS) : At(s, i, OpenTag(TAGS[k]))]
             c == i + Len(OpenTag(t))
             J == CloseCandidates(s, c, t)
         IN IF J = {} THEN NoMatch
            ELSE [found |-> TRUE, start |-> i, tag |-> t,
                  content |-> SubSeq(s, c, Min(J) - 1),
                  end |-> Min(J) + Len(CloseTag(t)) - 1,
                  group0 |-> SubSeq(s, i, Min(J) + Len(CloseTag(t)) - 1)]
    ELSE NoMatch

\* pattern.search from pos: the leftmost index at which the pattern matches
TagSearch(s, pos) ==
    LET I == {i \in pos..Len(s) : TagMatchAt(s, i).found}
    IN IF I = {} THEN NoMatch ELSE TagMatchAt(s, Min(I))

replace_match_with_spoken_form(m) ==
    IF m.tag = "number" THEN convert_number_tag_content(m.content)
    ELSE IF m.tag = "currency" THEN convert_currency_tag_content(m.content)
    ELSE IF m.tag = "telephone" THEN convert_telephone_tag_content(m.content)
    ELSE IF m.tag = "date" THEN convert_date_tag_content(m.content)
    ELSE Ok(m.group0)

\* pattern.sub: one left-to-right pass; an exception of the callback leaves sub
RECURSIVE SubTags(_, _)
SubTags(s, pos) ==
    LET m == TagSearch(s, pos) IN
    IF ~m.found THEN Ok(SubSeq(s, pos, Len(s)))
    ELSE LET r == replace_match_with_spoken_form(m) IN
         IF r.exc # "none" THEN r
         ELSE LET tl == SubTags(s, m.end + 1) IN
              IF tl.exc # "none" THEN tl
              ELSE Ok(SubSeq(s, pos, m.start - 1) \o r.val \o tl.val)

\* faulty variant: pattern.sub(..., count=1), only the first match replaced
convert_first_match_only(input_str) ==
    LET m == TagSearch(input_str, 1) IN
    IF ~m.found THEN Ok(input_str)
    ELSE Then(Then(Ok(SubSeq(input_str, 1, m.start - 1)),
                   replace_match_with_spoken_form(m).val),
              SubSeq(input_str, m.end + 1, Len(input_str)))

convert_tagged_string_to_spoken_chinese(input_str) == SubTags(input_str, 1)

(***************************************************************************)
(* process_tagged_string.py: add_ssml_tags                                 *)
(***************************************************************************)
currency_units_keywords ==
    << <<"ren", "min", "bi">>, <<"yuan">>, <<"mei", "yuan">>, <<"mei", "jin">>, <<"du">>,
       <<"wa">>, <<"W">>, <<"w">>, <<"%">>, <<"ri">>, <<"yue">>, <<"G">>, <<"G", "B">>,
       <<"M">>, <<"M", "B">>, <<"T">>, <<"T", "B">>>>

\* faulty variant of NumEnds: the pattern without its fraction, \d+
NumEndsWithoutFraction(s, i) ==
    {i + k - 1 : k \in 1..RunLen(SubSeq(s, i, Len(s)), "\\d")}

\* The ends e of the substrings s[i..e] that match num_pattern_core, \d+(?:\.\d+)?.
\* The regex tries them longest first (both quantifiers are greedy, and a shorter
\* integer part is followed by a digit, never by the dot).
NumEnds(s, i) ==
    LET a == RunLen(SubSeq(s, i, Len(s)), "\\d")
        b == IF i + a <= Len(s) /\ s[i + a] = "."
             THEN RunLen(SubSeq(s, i + a + 1, Len(s)), "\\d") ELSE 0
    IN {i + k - 1 : k \in 1..a} \cup {i + a + f : f \in 1..b}

\* the alternation of the unit keywords at index p: the first that matches
UnitsAt(s, p) == {k \in 1..Len(currency_units_keywords) : At(s, p, currency_units_keywords[k])}

UnitAt(s, p) == currency_units_keywords[Min(UnitsAt(s, p))]

\* the whole pattern tried at index i: G1 G2 | G3 (?!units)
NumMatchAt(s, i) ==
    LET E == IF i <= Len(s) /\ IsReDigit(s[i]) THEN NumEnds(s, i) ELSE {}
        E1 == {e \in E : UnitsAt(s, e + 1) # {}}
        E3 == {e \in E : UnitsAt(s, e + 1) = {}}
    IN IF E1 # {}
       THEN [found |-> TRUE, start |-> i, g1 |-> SubSeq(s, i, Max(E1)),
             g2 |-> UnitAt(s, Max(E1) + 1), g3 |-> <<>>,
             end |-> Max(E1) + Len(UnitAt(s, Max(E1) + 1)),
             group0 |-> SubSeq(s, i, Max(E1) + Len(UnitAt(s, Max(E1) + 1)))]
       ELSE IF E3 # {}
       THEN [found |-> TRUE, start |-> i, g1 |-> <<>>, g2 |-> <<>>,
             g3 |-> SubSeq(s, i, Max(E3)), end |-> Max(E3),
             group0 |-> SubSeq(s, i, Max(E3))]
       ELSE NoMatch

NumSearch(s, pos) ==
    LET I == {i \in pos..Len(s) : NumMatchAt(s, i).found}
    IN IF I = {} THEN NoMatch ELSE NumMatchAt(s, Min(I))

tagging_callback(m) ==
    IF m.g1 # <<>> /\ m.g2 # <<>>
    THEN OpenTag("currency") \o m.g1 \o CloseTag("currency") \o m.g2
    ELSE IF m.g3 # <<>>
    THEN OpenTag("number") \o m.g3 \o CloseTag("number")
    ELSE m.group0

RECURSIVE SubNums(_, _)
SubNums(s, pos) ==
    LET m == NumSearch(s, pos) IN
    IF ~m.found THEN SubSeq(s, pos, Len(s))
    ELSE SubSeq(s, pos, m.start - 1) \o tagging_callback(m) \o SubNums(s, m.end + 1)

add_ssml_tags(text) == Ok(SubNums(text, 1))

(***************************************************************************)
(* The inputs the functions are called with.                               *)
(***************************************************************************)
MaxPieces == 3
MaxRaw == 3
MaxValue == 1000
MaxCurDigits == 3
MaxParts == 3
MaxAmountDigits == 5

\* every concatenation of at most n pieces of P
RECURSIVE Concats(_, _)
Concats(P, n) ==
    IF n = 0 THEN {<<>>}
    ELSE LET S == Concats(P, n - 1) IN S \cup {p \o x : p \in P, x \in S}

TagSet == {TAGS[k] : k \in 1..Len(TAGS)}

TagPieces ==
    {OpenTag(t) : t \in TagSet} \cup {CloseTag(t) : t \in TagSet}
        \cup {<<"1", ".">>, <<"\n">>, <<"<", "b", ">">>}

\* number.py, original_test_cases and test_currency_internal_unit:
\* "ID<colon><number>101</number>", "<date>09:00</date>",
\* "<telephone>+8613800138000</telephone>" (shortened to +8613),
\* "<currency>16GB</currency> and <currency>400USD</currency>"; and two adjacent spans
TaggedExamples ==
    {<<"I", "D", "colon">> \o OpenTag("number") \o <<"1", "0", "1">> \o CloseTag("number"),
     OpenTag("date") \o <<"0", "9", ":", "0", "0">> \o CloseTag("date"),
     OpenTag("telephone") \o <<"+", "8", "6", "1", "3">> \o CloseTag("telephone"),
     OpenTag("currency") \o <<"1", "6", "G", "B">> \o CloseTag("currency")
         \o <<" ", "a", "n", "d", " ">>
         \o OpenTag("currency") \o <<"4", "0", "0", "U", "S", "D">> \o CloseTag("currency"),
     OpenTag("number") \o <<"1">> \o CloseTag("number")
         \o OpenTag("number") \o <<"2">> \o CloseTag("number")}

\* texts of tags and characters, and the same inside one more pair of tags
TaggedTexts ==
    Concats(TagPieces, MaxPieces)
        \cup {OpenTag(t) \o x \o CloseTag(t) :
                 t \in TagSet, x \in Concats(TagPieces, MaxPieces - 1)}
        \cup TaggedExamples

RawPieces ==
    {<<"1">>, <<"0">>, <<".">>, <<"G">>, <<"B">>, <<"T">>, <<"i">>, <<"mei">>,
     <<"yuan">>, <<" ">>}

\* process_tagged_string.py, test_cases: "5060Ti", "70w", "50000<ren><min><bi>",
\* "5432<yuan>", "1440 <fen>..." (shortened); number.py: "ID<colon>101" untagged
RawExamples ==
    {<<"5", "0", "6", "0", "T", "i">>,
     <<"7", "0", "w">>,
     <<"5", "0", "0", "0", "0", "ren", "min", "bi">>,
     <<"5", "4", "3", "2", "yuan">>,
     <<"1", "4", "4", "0", " ", "fen">>,
     <<"I", "D", "colon", "1", "0", "1">>}

\* amounts as the test cases of process_tagged_string.py write them: a run of
\* digits, an optional fraction, then a unit keyword
RawAmounts ==
    {d \o f \o u : d \in Concats({<<"0">>, <<"1">>}, MaxAmountDigits),
                   f \in {<<>>, <<".", "5">>},
                   u \in {<<"yuan">>, <<"ren", "min", "bi">>, <<"mei", "yuan">>, <<"G">>}}

RawTexts == Concats(RawPieces, MaxRaw) \cup RawExamples \cup RawAmounts

\* the decimal numerals of 0..MaxValue, and the same with a leading zero
DigitStrings == {str(n) : n \in 0..MaxValue} \cup {<<"0">> \o str(n) : n \in 0..MaxValue}

\* src/num/number.py:57, the docstring's "16" and "400", and the comment's "16GB"
NaturalInputs ==
    DigitStrings \cup {<<"-">> \o d : d \in DigitStrings}
        \cup {<<"1", "6", "G", "B">>, <<"1", "6", "\n", "G", "B">>, <<"G", "B", "1", "6">>}

CurDigitStrings == Concats({<<"0">>, <<"1">>, <<"5">>}, MaxCurDigits)

CurSuffixes ==
    {<<>>, <<"yuan">>, <<"ren", "min", "bi">>, <<"mei", "yuan">>, <<"U", "S", "D">>,
     <<"G", "B">>, <<" ", "U", "S", "D">>, <<"G", "B", "2">>, <<"yuan", " ">>}

\* number.py, original_test_cases: "120000<mei><yuan>", "5432<yuan>"; and content
\* that does not start with a digit
CurrencyExamples ==
    {<<"1", "2", "0", "0", "0", "0", "mei", "yuan">>,
     <<"5", "4", "3", "2", "yuan">>,
     <<"5", "4", "3", "2", "mei", "yuan">>,
     <<"U", "S", "D", "4">>}

CurrencyContents ==
    {d \o z \o x : d \in CurDigitStrings, z \in {<<>>, <<"0", "0", "0", "0">>},
                   x \in CurSuffixes}
        \cup CurrencyExamples

DateParts ==
    {<<>>, <<"0">>, <<"0", "0">>, <<"0", "9">>, <<"6">>, <<"1", "0">>, <<"2", "5">>,
     <<"1", "0", "0">>, <<"a">>}

\* parts joined by sep
RECURSIVE Join(_, _)
Join(parts, sep) ==
    IF Len(parts) = 1 THEN parts[1]
    ELSE parts[1] \o <<sep>> \o Join(Tail(parts), sep)

PartLists == UNION {[1..n -> DateParts] : n \in 1..MaxParts}

TwoDigits == {<<a, b>> : a \in AsciiDigitSet, b \in AsciiDigitSet}

DateContents ==
    {Join(ps, sep) : ps \in PartLists, sep \in {"/", ":"}}
        \cup {h \o <<":">> \o m : h \in {<<"9">>, <<"1", "0">>, <<"1", "/", "2">>},
                                  m \in TwoDigits}
        \cup {h \o <<":">> \o m : h \in TwoDigits,
                                  m \in {<<"0", "0">>, <<"0", "5">>, <<"3", "0">>}}
        \cup {y \o <<"/">> \o m \o <<"/">> \o d :
                 y \in {<<"2", "0", "2", "4">>, <<"1", ":", "2">>},
                 m \in {<<"0", "8">>, <<"1", "2">>}, d \in TwoDigits}

(***************************************************************************)
(* The calls.  A call applies one function to a string: an entry point to  *)
(* an input, or the next stage of a pipeline to the previous output.       *)
(***************************************************************************)
\* raw text -> auto-tagger -> verbalizer, and the verbalizer run again
Pipelines ==
    {<<"add_ssml_tags", "convert_tagged_string_to_spoken_chinese">>,
     <<"convert_tagged_string_to_spoken_chinese",
       "convert_tagged_string_to_spoken_chinese">>}

IsPrefix(a, b) == Len(a) <= Len(b) /\ SubSeq(b, 1, Len(a)) = a

Init ==
    /\ input = <<>>
    /\ calls = <<>>
    /\ prev = <<>>
    /\ output = <<>>
    /\ raised = "none"

\* the next stage of a pipeline may run: the stage before it returned
MayFollow(fn) ==
    /\ calls # <<>>
    /\ raised = "none"
    /\ \E p \in Pipelines : IsPrefix(Append(calls, fn), p)

CallAddSsmlTags(D) ==
    /\ calls = <<>>
    /\ \E x \in D :
           LET r == add_ssml_tags(x) IN
           /\ input' = x
           /\ calls' = Append(calls, "add_ssml_tags")
           /\ prev' = x
           /\ output' = (IF r.exc = "none" THEN r.val ELSE x)
           /\ raised' = r.exc

CallConvertTagged(D) ==
    /\ calls = <<>>
    /\ \E x \in D :
           LET r == convert_tagged_string_to_spoken_chinese(x) IN
           /\ input' = x
           /\ calls' = Append(calls, "convert_tagged_string_to_spoken_chinese")
           /\ prev' = x
           /\ output' = (IF r.exc = "none" THEN r.val ELSE x)
           /\ raised' = r.exc

CallConvertTaggedOnOutput ==
    /\ MayFollow("convert_tagged_string_to_spoken_chinese")
    /\ LET r == convert_tagged_string_to_spoken_chinese(output) IN
           /\ input' = input
           /\ calls' = Append(calls, "convert_tagged_string_to_spoken_chinese")
           /\ prev' = output
           /\ output' = (IF r.exc = "none" THEN r.val ELSE output)
           /\ raised' = r.exc

CallNaturalReading(D) ==
    /\ calls = <<>>
    /\ \E x \in D :
           LET r == number_to_chinese_natural_reading(x) IN
           /\ input' = x
           /\ calls' = Append(calls, "_number_to_chinese_natural_reading")
           /\ prev' = x
           /\ output' = (IF r.exc = "none" THEN r.val ELSE x)
           /\ raised' = r.exc

CallConvertCurrency(D) ==
    /\ calls = <<>>
    /\ \E x \in D :
           LET r == convert_currency_tag_content(x) IN
           /\ input' = x
           /\ calls' = Append(calls, "_convert_currency_tag_content")
           /\ prev' = x
           /\ output' = (IF r.exc = "none" THEN r.val ELSE x)
           /\ raised' = r.exc

CallConvertDate(D) ==
    /\ calls = <<>>
    /\ \E x \in D :
           LET r == convert_date_tag_content(x) IN
           /\ input' = x
           /\ calls' = Append(calls, "_convert_date_tag_content")
           /\ prev' = x
           /\ output' = (IF r.exc = "none" THEN r.val ELSE x)
           /\ raised' = r.exc

Next ==
    \/ CallAddSsmlTags(RawTexts)
    \/ CallConvertTagged(TaggedTexts)
    \/ CallConvertTaggedOnOutput
    \/ CallNaturalReading(NaturalInputs)
    \/ CallConvertCurrency(CurrencyContents)
    \/ CallConvertDate(DateContents)

Spec == Init /\ [][Next]_vars

(***************************************************************************)
(* The same calls on strings that hold digits outside ASCII (sup2, ar5).   *)
(***************************************************************************)
UnicodeParts ==
    {<<>>, <<"1">>, <<"sup2">>, <<"ar5">>, <<"0", "ar5">>, <<"0", "sup2">>, <<"a">>}

UnicodeDateContents ==
    {Join(ps, sep) : ps \in UNION {[1..n -> UnicodeParts] : n \in 1..MaxParts},
                     sep \in {"/", ":"}}

UnicodeStrings == Concats({<<"1">>, <<"sup2">>, <<"ar5">>, <<"yuan">>, <<"-">>}, MaxRaw)

UnicodeTaggedTexts ==
    {OpenTag(t) \o c \o CloseTag(t) :
        t \in TagSet, c \in UnicodeDateContents \cup UnicodeStrings}

NextUnicode ==
    \/ CallAddSsmlTags(UnicodeStrings)
    \/ CallConvertTagged(UnicodeTaggedTexts)
    \/ CallConvertTaggedOnOutput
    \/ CallNaturalReading(UnicodeStrings)
    \/ CallConvertCurrency(UnicodeStrings)
    \/ CallConvertDate(UnicodeDateContents)

SpecUnicode == Init /\ [][NextUnicode]_vars

(***************************************************************************)
(* The statements checked.  What the specification says is written here on *)
(* its own terms (spans, tokens, place values), apart from the code above. *)
(***************************************************************************)
Verbalize == "convert_tagged_string_to_spoken_chinese"

AutoTag == "add_ssml_tags"

\* the converter the specification assigns to a tag
ConverterOf(t, content) ==
    CASE t = "number" -> convert_number_tag_content(content)
      [] t = "currency" -> convert_currency_tag_content(content)
      [] t = "telephone" -> convert_telephone_tag_content(content)
      [] t = "date" -> convert_date_tag_content(content)

\* s[i..j] is a tagged span <t>content</t> whose content is the shortest possible
\* (lazy): it holds no </t>.  With oneLine the content holds no line break either.
IsSpan(s, i, j, t, oneLine) ==
    LET c == i + Len(OpenTag(t))
        e == j - Len(CloseTag(t)) + 1
    IN /\ At(s, i, OpenTag(t))
       /\ c <= e
       /\ At(s, e, CloseTag(t))
       /\ \A k \in c..(e - 1) : ~At(s, k, CloseTag(t))
       /\ oneLine => \A k \in c..(e - 1) : s[k] # "\n"

SpansFrom(s, pos, oneLine) ==
    {sp \in {i \in pos..Len(s) : s[i] = "<"} \X {j \in pos..Len(s) : s[j] = ">"} \X TagSet :
        IsSpan(s, sp[1], sp[2], sp[3], oneLine)}

\* the leftmost span that starts at pos or later
LeftmostSpan(s, pos, oneLine) ==
    CHOOSE sp \in SpansFrom(s, pos, oneLine) :
        \A other \in SpansFrom(s, pos, oneLine) : sp[1] <= other[1]

SpanContent(s, sp) ==
    SubSeq(s, sp[1] + Len(OpenTag(sp[3])), sp[2] - Len(CloseTag(sp[3])))

\* the leftmost, non-overlapping spans of s[pos..], in order
RECURSIVE LeftmostSpans(_, _, _)
LeftmostSpans(s, pos, oneLine) ==
    IF SpansFrom(s, pos, oneLine) = {} THEN <<>>
    ELSE LET sp == LeftmostSpan(s, pos, oneLine)
         IN <<sp>> \o LeftmostSpans(s, sp[2] + 1, oneLine)

\* s[pos..] with every span of the list replaced by its converter's output and
\* every other character copied
RECURSIVE Replaced(_, _, _)
Replaced(s, pos, spans) ==
    IF spans = <<>> THEN SubSeq(s, pos, Len(s))
    ELSE LET sp == spans[1]
         IN SubSeq(s, pos, sp[1] - 1) \o ConverterOf(sp[3], SpanContent(s, sp)).val
                \o Replaced(s, sp[2] + 1, Tail(spans))

Verbalized(s, oneLine) == Replaced(s, 1, LeftmostSpans(s, 1, oneLine))

\* C1 as stated: verbalize returns the input with each leftmost, non-overlapping,
\* lazy match of <tag>content</tag> replaced by its converter's output and every
\* other character copied, whatever the content is.
C1_AnyContent ==
    (calls = <<Verbalize>> /\ raised = "none") => output = Verbalized(input, FALSE)

\* C1 (amended): verbalize returns the input with each leftmost, non-overlapping,
\* lazy match of <tag>content</tag> whose content holds no line break replaced by
\* its converter's output, and every other character copied unchanged and in order;
\* an input with no such match (only unrecognized, mismatched or line-spanning tags)
\* is returned unchanged.
C1_VerbalizeReplacesSpans ==
    (calls = <<Verbalize>> /\ raised = "none") =>
        /\ output = Verbalized(input, TRUE)
        /\ SpansFrom(input, 1, TRUE) = {} => output = input

\* a call replaced a span and copied the text around it; another had tags yet no span
C1_Witness ==
    /\ calls = <<Verbalize>>
    /\ input = <<"I", "D", "colon">> \o OpenTag("number") \o <<"1", "0", "1">>
                   \o CloseTag("number")
    /\ output = <<"I", "D", "colon", "yi", "ling", "yi">>

\* every "<" of s starts the opening or the closing tag of one of its leftmost spans:
\* no tag text is nested in a span, left over outside the spans, or split by one
TagsNotNested(s) ==
    LET spans == LeftmostSpans(s, 1, TRUE)
        tagStarts == {spans[n][1] : n \in 1..Len(spans)}
                         \cup {spans[n][2] - Len(CloseTag(spans[n][3])) + 1 :
                                  n \in 1..Len(spans)}
    IN \A k \in 1..Len(s) : s[k] = "<" => k \in tagStarts

\* C2 as stated: verbalize(verbalize(x)) = verbalize(x) for every input x.
C2_Idempotent ==
    (calls = <<Verbalize, Verbalize>> /\ raised = "none") => output = prev

\* C2 (amended): verbalize(verbalize(x)) = verbalize(x) for every input x in which
\* every "<" starts the opening or closing tag of a matched span (adjacent spans,
\* but no nested, split or left-over tags): its output holds no "<" at all.
C2_IdempotentWithoutNesting ==
    (calls = <<Verbalize, Verbalize>> /\ raised = "none" /\ TagsNotNested(input)) =>
        /\ output = prev
        /\ ~Contains(prev, "<")

\* two adjacent spans were verbalized, and verbalized again
C2_Witness ==
    /\ calls = <<Verbalize, Verbalize>>
    /\ input = OpenTag("number") \o <<"1">> \o CloseTag("number")
                   \o OpenTag("number") \o <<"2">> \o CloseTag("number")
    /\ TagsNotNested(input)
    /\ prev = <<"yi", "er">>
    /\ output = prev

\* the glyph of the generic table for the digit value d
Glyph(d) == <<"ling", "yi", "er", "san", "si", "wu", "liu", "qi", "ba", "jiu">>[d + 1]

IsAsciiDigit(c) == c \in AsciiDigitSet

AllAsciiDigits(p) == Len(p) > 0 /\ \A i \in 1..Len(p) : IsAsciiDigit(p[i])

\* the length of the digit run at the start of s
DigitRun(s) ==
    CHOOSE n \in 0..Len(s) :
        /\ \A i \in 1..n : IsAsciiDigit(s[i])
        /\ n = Len(s) \/ ~IsAsciiDigit(s[n + 1])

\* a numeric token read digit by digit, "." read as dian
DigitByDigit(tok) ==
    [i \in 1..Len(tok) |->
        IF tok[i] = "." THEN "dian"
        ELSE IF IsAsciiDigit(tok[i]) THEN Glyph(DigitVal(tok[i]))
        ELSE tok[i]]

\* the last index of the maximal numeric token (digits, then an optional "." and
\* digits) that starts at i
TokenEnd(s, i) ==
    LET a == DigitRun(SubSeq(s, i, Len(s)))
        b == IF i + a + 1 <= Len(s) /\ s[i + a] = "."
             THEN DigitRun(SubSeq(s, i + a + 1, Len(s))) ELSE 0
    IN IF b > 0 THEN i + a + b ELSE i + a - 1

UnitSet == {currency_units_keywords[k] : k \in 1..Len(currency_units_keywords)}

\* the text right after index e begins with a configured unit keyword
FollowedByUnit(s, e) == \E u \in UnitSet : At(s, e + 1, u)

DigitPositions(s, pos) == {i \in pos..Len(s) : IsAsciiDigit(s[i])}

\* s[pos..] with each leftmost maximal numeric token wrapped once: in <currency>
\* when a unit follows it, in <number> otherwise
RECURSIVE TokensWrapped(_, _)
TokensWrapped(s, pos) ==
    IF DigitPositions(s, pos) = {} THEN SubSeq(s, pos, Len(s))
    ELSE LET i == Min(DigitPositions(s, pos))
             e == TokenEnd(s, i)
             t == IF FollowedByUnit(s, e) THEN "currency" ELSE "number"
         IN SubSeq(s, pos, i - 1) \o OpenTag(t) \o SubSeq(s, i, e) \o CloseTag(t)
                \o TokensWrapped(s, e + 1)

InsertedTags == {OpenTag(t) : t \in {"number", "currency"}}
                    \cup {CloseTag(t) : t \in {"number", "currency"}}

\* s without its <number>, </number>, <currency> and </currency> tags
RECURSIVE WithoutTags(_)
WithoutTags(s) ==
    IF s = <<>> THEN <<>>
    ELSE IF \E g \in InsertedTags : startswith(s, g)
    THEN WithoutTags(SubSeq(s, 1 + Len(CHOOSE g \in InsertedTags : startswith(s, g)), Len(s)))
    ELSE <<s[1]>> \o WithoutTags(Tail(s))

C4_UnitAdjacency ==
    /\ (calls = <<AutoTag>> /\ input = <<"5", "0", "6", "0", "T", "i">>) =>
           output = OpenTag("number") \o <<"5", "0", "6", "0">> \o CloseTag("number")
                        \o <<"T", "i">>
    /\ (calls = <<AutoTag>> /\ input = <<"7", "0", "w">>) =>
           output = OpenTag("currency") \o <<"7", "0">> \o CloseTag("currency") \o <<"w">>

\* s[pos..] with each numeric token that no unit follows read digit by digit, the
\* text around the tokens unchanged (a token that a unit follows is read as the
\* currency converter reads it)
RECURSIVE TokensRead(_, _)
TokensRead(s, pos) ==
    IF DigitPositions(s, pos) = {} THEN SubSeq(s, pos, Len(s))
    ELSE LET i == Min(DigitPositions(s, pos))
             e == TokenEnd(s, i)
             tok == SubSeq(s, i, e)
         IN SubSeq(s, pos, i - 1)
                \o (IF FollowedByUnit(s, e) THEN convert_currency_tag_content(tok).val
                    ELSE DigitByDigit(tok))
                \o TokensRead(s, e + 1)

\* C5: for raw untagged text, autoTag followed by verbalize replaces every numeric
\* token that no known unit follows by its digit-by-digit reading (generic glyphs,
\* "." read as dian, no place values) and leaves the text around it unchanged.
C5_BareNumberDigitByDigit ==
    (calls = <<AutoTag, Verbalize>> /\ raised = "none") => output = TokensRead(input, 1)

\* "ID<colon>101" became "ID<colon><yi><ling><yi>"
C5_Witness ==
    /\ calls = <<AutoTag, Verbalize>>
    /\ input = <<"I", "D", "colon", "1", "0", "1">>
    /\ prev = <<"I", "D", "colon">> \o OpenTag("number") \o <<"1", "0", "1">>
                  \o CloseTag("number")
    /\ output = <<"I", "D", "colon", "yi", "ling", "yi">>

ConvertCurrency == "_convert_currency_tag_content"

\* the leading digit run of a content, and the rest of the content
LeadDigits(c) == SubSeq(c, 1, DigitRun(c))

AfterDigits(c) == SubSeq(c, DigitRun(c) + 1, Len(c))

MonetaryUnits == {<<"ren", "min", "bi">>, <<"mei", "yuan">>, <<"yuan">>}

FourZeros == <<"0", "0", "0", "0">>

IsSpace(c) == c \in {" ", "\n", "\t"}

NotDigitNorSpace(c) == ~IsAsciiDigit(c) /\ ~IsSpace(c)

\* the suffix of a content: the characters after the leading digit run, up to the
\* first white space or digit
Suffix(c) ==
    LET a == AfterDigits(c)
    IN SubSeq(a, 1, CHOOSE n \in 0..Len(a) :
                        /\ \A i \in 1..n : NotDigitNorSpace(a[i])
                        /\ n = Len(a) \/ ~NotDigitNorSpace(a[n + 1]))

\* a digit run that ends in four zeros, of nonzero value, then a monetary unit
ShortcutCase(c) ==
    /\ endswith(LeadDigits(c), FourZeros)
    /\ int(LeadDigits(c)) > 0
    /\ Suffix(c) \in MonetaryUnits

\* C6: for content made of a digit run that ends in four zeros and has a nonzero
\* value, followed by a known monetary unit, the output is the natural reading of the
\* run without its last four zeros, then wan, then the unit; the shortcut is not
\* taken when the value is zero or the suffix is not a known monetary unit.  (The
\* suffix is the text after the digit run up to the first white space or digit.)
C6_TenThousandShortcut ==
    calls = <<ConvertCurrency>> =>
        /\ ShortcutCase(input) =>
               output = number_to_chinese_natural_reading(
                            SubSeq(LeadDigits(input), 1, Len(LeadDigits(input)) - 4)).val
                            \o <<"wan">> \o Suffix(input)
        /\ input = <<"5", "0", "0", "0", "0", "ren", "min", "bi">> =>
               output = <<"wu", "wan", "ren", "min", "bi">>
        /\ input = <<"1", "2", "0", "0", "0", "0", "mei", "yuan">> =>
               output = <<"shi", "er", "wan", "mei", "yuan">>
        /\ (endswith(LeadDigits(input), FourZeros) /\ ~ShortcutCase(input)) =>
               ~Contains(output, "wan")

\* "1010000<yuan>" read as yi bai ling yi wan yuan
C6_Witness ==
    /\ calls = <<ConvertCurrency>>
    /\ input = <<"1", "0", "1", "0", "0", "0", "0", "yuan">>
    /\ ShortcutCase(input)
    /\ output = <<"yi", "bai", "ling", "yi", "wan", "yuan">>

\* C7: for content that starts with a digit run and is handled neither by the
\* ten-thousand shortcut nor by the "5432<yuan>" exception, the output is the natural
\* reading of the leading digit run followed by the whole rest of the content
\* unchanged: no character after the digit run is dropped or altered.
C7_SuffixKept ==
    (/\ calls = <<ConvertCurrency>>
     /\ LeadDigits(input) # <<>>
     /\ ~ShortcutCase(input)
     /\ input # <<"5", "4", "3", "2", "yuan">>) =>
        output = number_to_chinese_natural_reading(LeadDigits(input)).val
                     \o AfterDigits(input)

ConvertDate == "_convert_date_tag_content"

\* the generic 0..99 place-value rule; anything else is left as it is
Generic(p) ==
    IF ~AllAsciiDigits(p) THEN p
    ELSE LET v == int(p) IN
         IF v > 99 THEN p
         ELSE IF v < 10 THEN <<Glyph(v)>>
         ELSE (IF v \div 10 = 1 THEN <<>> ELSE <<Glyph(v \div 10)>>) \o <<"shi">>
                  \o (IF v % 10 = 0 THEN <<>> ELSE <<Glyph(v % 10)>>)

\* the minute rule: "00" is ling, "01".."09" are ling and the glyph of the second
\* digit, anything else goes by the generic rule
MinuteRule(p) ==
    IF p = <<"0", "0">> THEN <<"ling">>
    ELSE IF Len(p) = 2 /\ p[1] = "0" /\ IsAsciiDigit(p[2]) THEN <<"ling", Glyph(DigitVal(p[2]))>>
    ELSE Generic(p)

DateReading(c) ==
    LET ps == split(c, "/")
    IN DigitByDigit(ps[1]) \o <<"nian">> \o Generic(ps[2]) \o <<"yue">> \o Generic(ps[3])
           \o <<"ri">>

TimeReading(c) ==
    LET ps == split(c, ":")
    IN Generic(ps[1]) \o <<"dian">> \o MinuteRule(ps[2]) \o <<"fen">>

\* C8 as stated: content with three "/"-separated parts is read as a date, content
\* with two ":"-separated parts as a time.
C8_DateAndTime ==
    calls = <<ConvertDate>> =>
        /\ Len(split(input, "/")) = 3 => output = DateReading(input)
        /\ Len(split(input, ":")) = 2 => output = TimeReading(input)

\* C8 (amended): content Y/M/D with three "/"-separated parts reads as the year digit
\* by digit, nian, the month by the generic 0..99 rule, yue, the day by the same
\* rule, ri; content H:M with two ":"-separated parts and no "/" in it reads as the
\* hour by the generic rule, dian, the minute by the minute rule, fen.
C8_DateAndTimeWithoutSlash ==
    calls = <<ConvertDate>> =>
        /\ Len(split(input, "/")) = 3 => output = DateReading(input)
        /\ (Len(split(input, ":")) = 2 /\ ~Contains(input, "/")) =>
               output = TimeReading(input)
        /\ input = <<"2", "0", "2", "4", "/", "0", "8", "/", "0", "6">> =>
               output = <<"er", "ling", "er", "si", "nian", "ba", "yue", "liu", "ri">>
        /\ input = <<"0", "9", ":", "0", "0">> => output = <<"jiu", "dian", "ling", "fen">>

\* "10:05" read as shi dian ling wu fen
C8_Witness ==
    /\ calls = <<ConvertDate>>
    /\ input = <<"1", "0", ":", "0", "5">>
    /\ output = <<"shi", "dian", "ling", "wu", "fen">>

\* C9: verbalize returns a string for every input and every tag content, however
\* malformed; it never raises.
C9_NeverRaises == calls = <<Verbalize>> => raised = "none"

NaturalReading == "_number_to_chinese_natural_reading"

\* C10: for "-" followed by digits, the natural reading is fu followed by the
\* natural reading of the absolute value.
C10_NegativeReadsFu ==
    (/\ calls = <<NaturalReading>>
     /\ startswith(input, <<"-">>)
     /\ AllAsciiDigits(Tail(input))) =>
        output = <<"fu">> \o number_to_chinese_natural_reading(Tail(input)).val

\* the glyph a is immediately followed by the glyph b somewhere in s
Adjacent(s, a, b) == \E i \in 1..(Len(s) - 1) : s[i] = a /\ s[i + 1] = b

IsNumericToken(c) == Len(c) > 0 /\ IsAsciiDigit(c[1]) /\ TokenEnd(c, 1) = Len(c)

\* the <currency> spans of s that verbalize converts
CurrencySpans(s) ==
    LET spans == LeftmostSpans(s, 1, TRUE)
    IN {spans[k] : k \in {n \in 1..Len(spans) : spans[n][3] = "currency"}}

\* the value of the integer part of a numeric token
TokenValue(tok) == int(LeadDigits(tok))

\* the "5432<yuan>" exception of the currency converter
ExceptionCase(c) == LeadDigits(c) = <<"5", "4", "3", "2">> /\ Suffix(c) = <<"yuan">>

\* s[pos..] with each numeric token that a unit follows and whose value is 1000 or
\* more read digit by digit (as a token without a unit is); a smaller token that a
\* unit follows is read as the currency converter reads it
RECURSIVE AmountsRead(_, _)
AmountsRead(s, pos) ==
    IF DigitPositions(s, pos) = {} THEN SubSeq(s, pos, Len(s))
    ELSE LET i == Min(DigitPositions(s, pos))
             e == TokenEnd(s, i)
             tok == SubSeq(s, i, e)
         IN SubSeq(s, pos, i - 1)
                \o (IF FollowedByUnit(s, e) /\ TokenValue(tok) < 1000
                    THEN convert_currency_tag_content(tok).val
                    ELSE DigitByDigit(tok))
                \o AmountsRead(s, e + 1)

\* in autoTag's output every <currency> span holds a bare numeric token with the
\* unit right after the closing tag; so the converter that verbalize then runs finds
\* no monetary unit, and neither the ten-thousand shortcut nor the exception fires
C12_UnitOutsideTag ==
    /\ calls = <<AutoTag>> =>
           \A sp \in CurrencySpans(output) :
               /\ IsNumericToken(SpanContent(output, sp))
               /\ FollowedByUnit(output, sp[2])
    /\ calls = <<AutoTag, Verbalize>> =>
           /\ \A sp \in CurrencySpans(prev) :
                  /\ Suffix(SpanContent(prev, sp)) \notin MonetaryUnits
                  /\ ~ShortcutCase(SpanContent(prev, sp))
                  /\ ~ExceptionCase(SpanContent(prev, sp))
           /\ ~Contains(output, "wan")

\* a unit-bearing number of 1000 or more is read digit by digit after autoTag and
\* verbalize
C12_AmountsDigitByDigit ==
    (calls = <<AutoTag, Verbalize>> /\ raised = "none") => output = AmountsRead(input, 1)

\* C12: in every output of autoTag each <currency> span holds a bare numeric token,
\* the unit being left outside the tag; so when verbalize runs on autoTag's output
\* the currency converter never sees a monetary unit, the ten-thousand shortcut and
\* the "5432<yuan>" exception never fire, and a unit-bearing number of 1000 or more
\* is read digit by digit and not with wan.
C12_CurrencyNeverSeesUnit == C12_UnitOutsideTag /\ C12_AmountsDigitByDigit

====
